---- MODULE Spec2Model ----
(***************************************************************************)
(* Model of pandas_ta/momentum/tmo.py (the True Momentum Oscillator) and   *)
(* pandas_ta/trend/decay.py (linear and exponential decay).                 *)
(*                                                                         *)
(* Real numbers are kept exact: a float array is a sequence of integer     *)
(* numerators over one common positive denominator (field den).            *)
(* A pandas Series is a function from its index labels 0..n-1 to cells;    *)
(* a cell is <<v>> (the value v) or <<>> (NaN).                            *)
(***************************************************************************)
EXTENDS Integers, Sequences, FiniteSets, TLC

\* ------------------------------------------------------------------ bounds
MaxN == 4
MaxLen == 3
MaxM == 4
MaxDecayLen == 3

Price == {1, 2}
DecayInput == {-1, 0, 1, 2}

\* --------------------------------------------------------------- constants
DefaultTmoLength == 14
DefaultCalcLength == 5
DefaultSmoothLength == 3

NoneVal == "None"
NoneSeries == << >>
NaN == << >>

\* ----------------------------------------------------------------- helpers
SeqsUpTo(S, n) == UNION {[1..k -> S] : k \in 1..n}

RECURSIVE Pow(_, _)
Pow(b, e) == IF e = 0 THEN 1 ELSE b * Pow(b, e - 1)

RECURSIVE SumTo(_, _, _)
\* F[lo] + ... + F[hi]; 0 for an empty range
SumTo(F, lo, hi) == IF hi < lo THEN 0 ELSE F[hi] + SumTo(F, lo, hi - 1)

Max2(a, b) == IF a >= b THEN a ELSE b

\* ------------------------------------------------------------- tmo: pieces

\* tmo.py:28-30   int(v) if v and v > 0 else default
PosOrDefault(v, d) == IF v # 0 /\ v > 0 THEN v ELSE d

\* tmo.py:31      mamode if isinstance(mamode, str) else "ema"
StrOrEma(m) == IF m # NoneVal THEN m ELSE "ema"

\* pandas_ta.utils.verify_series: None when the series is shorter than min_length
verify_series(series, min_length) ==
    IF Len(series) < min_length THEN NoneSeries ELSE series

\* pandas_ta.utils.get_offset: the integer offset, 0 when none is given
get_offset(x) == IF x = << >> THEN 0 ELSE x[1]

\* numpy broadcasting of two 1-d arrays (tmo.py:68, close.values - open_.values)
Broadcastable(a, b) == Len(a) = Len(b) \/ Len(a) = 1 \/ Len(b) = 1
BroadcastAt(a, i) == IF Len(a) = 1 THEN a[1] ELSE a[i]
Subtract(a, b) ==
    [i \in 1..Max2(Len(a), Len(b)) |-> BroadcastAt(a, i) - BroadcastAt(b, i)]

\* np.sign
Sign(v) == IF v > 0 THEN 1 ELSE IF v < 0 THEN -1 ELSE 0
np_sign(a) == [i \in 1..Len(a) |-> Sign(a[i])]

\* tmo.py:10-13. alpha = 2/(J+1), so 1-alpha = (J-1)/(J+1) and
\*   k3[n] = (1/L) * sum_{m=0..n} ((J-1)/(J+1))^(n-m)
\* over the common denominator L*(J+1)^(L-1); entry n+1 of w is k3[n].
compute_combined_kernel(L, J) ==
    [w   |-> [n1 \in 1..L |->
                SumTo([k \in 0..(n1 - 1) |-> Pow(J - 1, k) * Pow(J + 1, L - 1 - k)],
                      0, n1 - 1)],
     den |-> L * Pow(J + 1, L - 1)]

\* np.ones(tmo_length)
np_ones(L) == [w |-> [n1 \in 1..L |-> 1], den |-> 1]

\* tmo.py:69
SelectKernel(mode, L, J) ==
    IF mode # "ema" THEN np_ones(L) ELSE compute_combined_kernel(L, J)

\* np.convolve(a, v, 'valid') for Len(a) >= Len(v):
\*   out[j] = sum_m a[j + Len(v) - 1 - m] * v[m]   (0-based j, m)
ConvolveValid(a, v) ==
    [j \in 1..(Len(a) - Len(v) + 1) |->
        SumTo([m \in 1..Len(v) |-> a[j + Len(v) - m] * v[m]], 1, Len(v))]

\* tmo.py:15-17; numpy swaps the operands when the kernel is the longer one
fast_convolve(signal, kern) ==
    [w   |-> IF Len(kern.w) > Len(signal)
             THEN ConvolveValid(kern.w, signal)
             ELSE ConvolveValid(signal, kern.w),
     den |-> kern.den]

\* pandas Series(array): default RangeIndex 0..n-1
Series(arr) ==
    [v |-> [i \in 0..(Len(arr.w) - 1) |-> <<arr.w[i + 1]>>], den |-> arr.den]

\* pandas_ta.overlap.ma for a non-exponential mode (simple moving average):
\* same index, the first length-1 cells undefined, then the window mean
ma(mode, s, length) ==
    [v   |-> [i \in DOMAIN s.v |->
                IF i < length - 1 \/ \E k \in (i - length + 1)..i : s.v[k] = NaN
                THEN NaN
                ELSE <<SumTo([k \in (i - length + 1)..i |-> s.v[k][1]],
                             i - length + 1, i)>>],
     den |-> s.den * length]

\* ---------------------------------------------------------------- state
VARIABLES
    pc,                 \* position in tmo / decay
    open_, close,       \* the price series (arrays of .values), or NoneSeries
    tmo_length, calc_length, smooth_length,
    compute_momemtum,   \* the keyword argument as spelled at tmo.py:24
    mamode, offset, kwargs,
    signum_values, kernel, conv_result, main_signal,
    smooth_signal, mom_main, mom_smooth,   \* bound at tmo.py:74-80
    stages,             \* the pipeline stages executed so far, in order
    ret,                \* what the call returned: "running", "None", "DataFrame", "Series"
    exc,                \* the exception that ended the call, or NoneVal
    df,                 \* the returned DataFrame: column -> Series, name, category
    x, length, mode, _mode, result, i   \* decay: close.values, length, mode, _mode, result, loop index

tmoArgs == <<compute_momemtum, kwargs>>
tmoLens == <<tmo_length, calc_length, smooth_length>>
tmoData == <<signum_values, kernel, conv_result, main_signal,
             smooth_signal, mom_main, mom_smooth>>
tmoVars == <<open_, close, tmoLens, tmoArgs, mamode, offset, tmoData, stages, df>>
decayVars == <<x, length, mode, _mode, result, i>>
vars == <<pc, tmoVars, ret, exc, decayVars>>

NoArray == [w |-> << >>, den |-> 1]
NoSignal == [v |-> << >>, den |-> 1]

TmoIdle ==
    /\ open_ = NoneSeries /\ close = NoneSeries
    /\ tmo_length = 0 /\ calc_length = 0 /\ smooth_length = 0
    /\ compute_momemtum = FALSE
    /\ mamode = NoneVal /\ offset = << >>
    /\ kwargs = [fillna |-> << >>, fill_method |-> NoneVal]
    /\ signum_values = << >> /\ kernel = NoArray /\ conv_result = NoArray
    /\ main_signal = NoSignal
    /\ smooth_signal = NoSignal /\ mom_main = NoSignal /\ mom_smooth = NoSignal
    /\ stages = << >>
    /\ df = << >>

DecayIdle ==
    /\ x = << >> /\ length = 0 /\ mode = NoneVal /\ _mode = NoneVal
    /\ result = NoArray /\ i = 0

\* ------------------------------------------------------------ tmo: actions

\* a call tmo(open_, close, tmo_length, calc_length, smooth_length,
\*            compute_momemtum, mamode, offset, **kwargs)
Init ==
    /\ pc = "validate"
    /\ open_ \in SeqsUpTo(Price, MaxN)
    /\ close \in SeqsUpTo(Price, MaxN)
    /\ tmo_length \in 0..MaxLen
    /\ calc_length \in 0..MaxLen
    /\ smooth_length \in 0..MaxLen
    /\ compute_momemtum \in BOOLEAN
    /\ mamode \in {NoneVal, "ema", "sma"}
    /\ offset \in {<< >>, <<1>>, <<-1>>}
    /\ kwargs \in [fillna : {<< >>, <<0>>}, fill_method : {NoneVal, "ffill"}]
    /\ signum_values = << >> /\ kernel = NoArray /\ conv_result = NoArray
    /\ main_signal = NoSignal
    /\ smooth_signal = NoSignal /\ mom_main = NoSignal /\ mom_smooth = NoSignal
    /\ stages = << >>
    /\ df = << >>
    /\ ret = "running" /\ exc = NoneVal
    /\ DecayIdle

\* tmo.py:28-31
ValidateArguments ==
    /\ pc = "validate"
    /\ tmo_length' = PosOrDefault(tmo_length, DefaultTmoLength)
    /\ calc_length' = PosOrDefault(calc_length, DefaultCalcLength)
    /\ smooth_length' = PosOrDefault(smooth_length, DefaultSmoothLength)
    /\ mamode' = StrOrEma(mamode)
    /\ pc' = "verify"
    /\ UNCHANGED <<open_, close, tmoArgs, offset, tmoData, stages, df, ret, exc,
                   decayVars>>

\* tmo.py:34-38
VerifySeries ==
    /\ pc = "verify"
    /\ LET min_length == Max2(tmo_length, Max2(calc_length, smooth_length))
           o == verify_series(open_, min_length)
           c == verify_series(close, min_length)
       IN /\ open_' = o
          /\ close' = c
          /\ offset' = <<get_offset(offset)>>
          /\ IF o = NoneSeries \/ c = NoneSeries
             THEN pc' = "returned" /\ ret' = "None"
             ELSE pc' = "signum" /\ ret' = ret
    /\ UNCHANGED <<tmoLens, tmoArgs, mamode, tmoData, stages, df, exc, decayVars>>

\* tmo.py:68
Signum ==
    /\ pc = "signum"
    /\ IF Broadcastable(close, open_)
       THEN /\ signum_values' = np_sign(Subtract(close, open_))
            /\ stages' = Append(stages, "SignTransform")
            /\ pc' = "kernel"
            /\ exc' = exc
       ELSE /\ exc' = "ValueError"
            /\ pc' = "raised"
            /\ UNCHANGED <<signum_values, stages>>
    /\ UNCHANGED <<open_, close, tmoLens, tmoArgs, mamode, offset, kernel,
                   conv_result, main_signal, smooth_signal, mom_main, mom_smooth,
                   df, ret, decayVars>>

\* tmo.py:69
Kernel ==
    /\ pc = "kernel"
    /\ kernel' = SelectKernel(mamode, tmo_length, calc_length)
    /\ pc' = "convolve"
    /\ UNCHANGED <<open_, close, tmoLens, tmoArgs, mamode, offset, signum_values,
                   conv_result, main_signal, smooth_signal, mom_main, mom_smooth,
                   stages, df, ret, exc, decayVars>>

\* tmo.py:70
Convolve ==
    /\ pc = "convolve"
    /\ conv_result' = fast_convolve(signum_values, kernel)
    /\ stages' = Append(stages, IF mamode = "ema" THEN "KernelFusion" ELSE "RollingSum")
    /\ pc' = "main_signal"
    /\ UNCHANGED <<open_, close, tmoLens, tmoArgs, mamode, offset, signum_values,
                   kernel, main_signal, smooth_signal, mom_main, mom_smooth,
                   df, ret, exc, decayVars>>

\* tmo.py:73
MainSignal ==
    /\ pc = "main_signal"
    /\ IF mamode = "ema"
       THEN /\ main_signal' = Series(conv_result)
            /\ stages' = stages
       ELSE /\ main_signal' = ma(mamode, Series(conv_result), calc_length)
            /\ stages' = Append(stages, "MovingAverage(secondary)")
    /\ pc' = "smooth_signal"
    /\ UNCHANGED <<open_, close, tmoLens, tmoArgs, mamode, offset, signum_values,
                   kernel, conv_result, smooth_signal, mom_main, mom_smooth,
                   df, ret, exc, decayVars>>

\* tmo.py:74: the argument tmo_main_signal is bound nowhere (not a parameter,
\* not a local, not a module global, not a builtin), so evaluating the call's
\* arguments raises NameError before ma is entered.
SmoothSignal ==
    /\ pc = "smooth_signal"
    /\ exc' = "NameError"
    /\ pc' = "raised"
    /\ UNCHANGED <<tmoVars, ret, decayVars>>

Next ==
    \/ ValidateArguments
    \/ VerifySeries
    \/ Signum
    \/ Kernel
    \/ Convolve
    \/ MainSignal
    \/ SmoothSignal

Spec == Init /\ [][Next]_vars

\* ------------------------------------------------------ properties of tmo

Terminated == pc \in {"returned", "raised"}

\* the call got equal-length open/close series with enough history
\* (both passed verify_series at their final lengths)
GoodInput ==
    /\ Terminated
    /\ ret # "None"
    /\ Len(open_) = Len(close)

Columns == {"TMO", "TMO_Smooth", "TMO_Main_Mom", "TMO_Smooth_Mom"}

\* the sum of sig[e-L+1 .. e] (1-based e): the last L values up to e
WindowSum(sig, L, e) == SumTo(sig, e - L + 1, e)

\* Series.shift(O) on a fixed index
Shift(s, O) ==
    [v |-> [k \in DOMAIN s.v |-> IF (k - O) \in DOMAIN s.v THEN s.v[k - O] ELSE NaN],
     den |-> s.den]

RECURSIVE LastDefined(_, _)
\* the nearest defined cell at or before index k, NaN when there is none
LastDefined(f, k) ==
    IF k \notin DOMAIN f THEN NaN
    ELSE IF f[k] # NaN THEN f[k] ELSE LastDefined(f, k - 1)

\* the fill policy of one call: a constant, else forward fill, else nothing
Fill(s, kw) ==
    IF kw.fillna # << >>
    THEN [v |-> [k \in DOMAIN s.v |-> IF s.v[k] = NaN THEN <<kw.fillna[1] * s.den>> ELSE s.v[k]],
          den |-> s.den]
    ELSE IF kw.fill_method = "ffill"
    THEN [v |-> [k \in DOMAIN s.v |-> LastDefined(s.v, k)], den |-> s.den]
    ELSE s

\* C1: every call with equal-length series of sufficient history ends by
\* returning the DataFrame of the four series, named TMO_<L>_<J>_<S>, with
\* category "momentum"; no such call ends in an exception.
C1_ReturnsBundle ==
    GoodInput =>
        /\ pc = "returned" /\ exc = NoneVal /\ ret = "DataFrame"
        /\ DOMAIN df.columns = Columns
        /\ df.name = <<"TMO", tmo_length, calc_length, smooth_length>>
        /\ df.category = "momentum"

\* C2: with smoothing span J = 1 (alpha = 1, exponential smoothing is the
\* identity) the fused convolution equals the plain rolling sum of the last
\* L signs at every output position.
C2_FusedEqualsRollingSum ==
    (/\ Len(stages) >= 2 /\ stages[2] = "KernelFusion"
     /\ calc_length = 1) =>
        \A j \in 1..Len(conv_result.w) :
            conv_result.w[j] =
                conv_result.den * WindowSum(signum_values, tmo_length, j + tmo_length - 1)

\* C3: in the generic path the summed signal, as a series, holds at every
\* index i with L-1 <= i <= N-1 the sum of signs i-L+1..i and is undefined
\* (NaN or absent) at every index i < L-1.
C3_RollingSumAligned ==
    (Len(stages) >= 2 /\ stages[2] = "RollingSum") =>
        LET s == Series(conv_result).v
            N == Len(signum_values)
            L == tmo_length
        IN \A idx \in 0..(N - 1) :
              IF idx >= L - 1
              THEN idx \in DOMAIN s
                   /\ s[idx] = <<conv_result.den * WindowSum(signum_values, L, idx + 1)>>
              ELSE idx \notin DOMAIN s \/ s[idx] = NaN

\* C4: the stages of a call run in the documented order, with two tertiary
\* smoothing stages after the first smoothing in either branch.
C4_StageOrder ==
    GoodInput =>
        stages = IF mamode = "ema"
                 THEN <<"SignTransform", "KernelFusion",
                        "MovingAverage(tertiary)", "MovingAverage(tertiary)">>
                 ELSE <<"SignTransform", "RollingSum", "MovingAverage(secondary)",
                        "MovingAverage(tertiary)", "MovingAverage(tertiary)">>

\* C5: each of the four returned series is the computed series shifted by the
\* offset passed to the call (no fill configured).
C5_OffsetShifts ==
    (GoodInput /\ kwargs.fillna = << >> /\ kwargs.fill_method = NoneVal) =>
        /\ ret = "DataFrame"
        /\ df.columns["TMO"] = Shift(main_signal, offset[1])
        /\ df.columns["TMO_Smooth"] = Shift(smooth_signal, offset[1])
        /\ df.columns["TMO_Main_Mom"] = Shift(mom_main, offset[1])
        /\ df.columns["TMO_Smooth_Mom"] = Shift(mom_smooth, offset[1])

\* C6: all four returned series receive the same fill policy: the constant
\* when one is configured, else the propagation method, else none.
C6_UniformFill ==
    GoodInput =>
        /\ ret = "DataFrame"
        /\ \A c \in Columns :
              df.columns[c] = Fill(df.columns[c], kwargs)
        /\ df.columns["TMO"] = Fill(Shift(main_signal, offset[1]), kwargs)
        /\ df.columns["TMO_Smooth"] = Fill(Shift(smooth_signal, offset[1]), kwargs)
        /\ df.columns["TMO_Main_Mom"] = Fill(Shift(mom_main, offset[1]), kwargs)
        /\ df.columns["TMO_Smooth_Mom"] = Fill(Shift(mom_smooth, offset[1]), kwargs)

\* C7: with the momentum flag off both momentum outputs of the returned
\* bundle are all-zero series on the index of the main and smooth signals,
\* and the call does not fail.
C7_MomentumOffZero ==
    (GoodInput /\ ~compute_momemtum) =>
        /\ ret = "DataFrame" /\ exc = NoneVal
        /\ \A c \in {"TMO_Main_Mom", "TMO_Smooth_Mom"} :
              /\ DOMAIN df.columns[c].v = DOMAIN df.columns["TMO"].v
              /\ \A k \in DOMAIN df.columns[c].v : df.columns[c].v[k] = <<0>>

\* the momentum of series sig at lag S: sig[k] - sig[k-S] from index S on,
\* undefined before
MomentumOf(sig, mom, S) ==
    /\ DOMAIN mom.v = DOMAIN sig.v
    /\ mom.den = sig.den
    /\ \A k \in DOMAIN sig.v :
          IF k < S \/ sig.v[k] = NaN \/ sig.v[k - S] = NaN
          THEN mom.v[k] = NaN
          ELSE mom.v[k] = <<sig.v[k][1] - sig.v[k - S][1]>>

\* C8: with momentum enabled (no offset, no fill) the main-momentum output
\* is main[i] - main[i-S] and the smooth-momentum output is
\* smooth[i] - smooth[i-S] at every index i >= S, undefined at i < S.
C8_MomentumLag ==
    (/\ GoodInput /\ compute_momemtum /\ offset = <<0>>
     /\ kwargs.fillna = << >> /\ kwargs.fill_method = NoneVal) =>
        /\ ret = "DataFrame"
        /\ MomentumOf(df.columns["TMO"], df.columns["TMO_Main_Mom"], smooth_length)
        /\ MomentumOf(df.columns["TMO_Smooth"], df.columns["TMO_Smooth_Mom"], smooth_length)

\* the sign step of a verified call has been taken (tmo.py:68)
PastSignum ==
    pc \in {"kernel", "convolve", "main_signal", "smooth_signal", "raised"}

\* C9: for equal-length open/close the sign sequence has their length and
\* element i is +1, -1 or 0 as close[i] is above, below or equal to open[i]
\* (all zero, with an all-zero convolved signal, when open = close); the
\* step fails whenever the two lengths differ, also when one of them is 1.
C9_SignTransform ==
    PastSignum =>
        IF Len(open_) = Len(close)
        THEN /\ Len(signum_values) = Len(close)
             /\ \A k \in 1..Len(close) :
                   /\ signum_values[k] \in {-1, 0, 1}
                   /\ (signum_values[k] = 1) <=> (close[k] > open_[k])
                   /\ (signum_values[k] = -1) <=> (close[k] < open_[k])
             /\ (open_ = close) =>
                   /\ \A k \in 1..Len(signum_values) : signum_values[k] = 0
                   /\ \A j \in 1..Len(conv_result.w) : conv_result.w[j] = 0
        ELSE exc = "ValueError" /\ signum_values = << >>

\* ----------------------------------------------------------- decay: pieces

\* pandas_ta.utils.v_pos_default: the value when it is a positive integer
v_pos_default(v, d) == IF v > 0 THEN v ELSE d

\* pandas_ta.utils.v_str: the value when it is a string
v_str(v, d) == IF v # NoneVal THEN v ELSE d

\* pandas_ta.utils.v_series: None when the series is shorter than length
v_series(series, len) ==
    IF Len(series) < v_pos_default(len, 0) THEN NoneSeries ELSE series

\* a max that forgets the clamp at zero
max3_noclamp(a, b, c) == Max2(b, c)

\* decay.py:20 and decay.py:36: the builtin max of three numbers
max3(a, b, c) == Max2(Max2(a, b), c)

\* decay.py:14-17: rate = 1 - 1/n; result = zeros_like(x); result[0] = x[0].
\* The common denominator n^(m-1) keeps every product by rate exact.
ExpEntry(xs, n) ==
    [w   |-> [k \in 1..Len(xs) |-> IF k = 1 THEN xs[1] * Pow(n, Len(xs) - 1) ELSE 0],
     den |-> Pow(n, Len(xs) - 1)]

\* decay.py:20   result[i] = max(0, x[i], result[i - 1] * rate)   (0-based i)
ExpStep(res, xs, n, j) ==
    [res EXCEPT !.w[j + 1] =
        max3(0, xs[j + 1] * res.den, (res.w[j] * (n - 1)) \div n)]

\* decay.py:30-33: rate = 1/n; result = zeros_like(x); result[0] = x[0].
LinEntry(xs, n) ==
    [w   |-> [k \in 1..Len(xs) |-> IF k = 1 THEN xs[1] * n ELSE 0],
     den |-> n]

\* decay.py:36   result[i] = max(0, x[i], result[i - 1] - rate)   (0-based i)
LinStep(res, xs, n, j) ==
    [res EXCEPT !.w[j + 1] =
        max3(0, xs[j + 1] * res.den, res.w[j] - res.den \div n)]

\* ---------------------------------------------------------- decay: actions

\* a call decay(close, length, mode)
DecayInit ==
    /\ pc = "decay_validate"
    /\ x \in SeqsUpTo(DecayInput, MaxM)
    /\ length \in 0..MaxDecayLen
    /\ mode \in {NoneVal, "linear", "exp", "exponential"}
    /\ _mode = NoneVal
    /\ result = NoArray
    /\ i = 0
    /\ ret = "running" /\ exc = NoneVal
    /\ TmoIdle

\* decay.py:68-75
DecayValidate ==
    /\ pc = "decay_validate"
    /\ LET c == v_series(x, length)
       IN /\ x' = c
          /\ IF c = NoneSeries
             THEN /\ pc' = "returned" /\ ret' = "None"
                  /\ UNCHANGED <<length, mode>>
             ELSE /\ length' = v_pos_default(length, 1)
                  /\ mode' = v_str(mode, "linear")
                  /\ pc' = "calculate" /\ ret' = ret
    /\ UNCHANGED <<_mode, result, i, exc, tmoVars>>

\* decay.py:78-84: the branch on mode
DecayCalculate ==
    /\ pc = "calculate"
    /\ IF mode \in {"exp", "exponential"}
       THEN _mode' = "EXP" /\ pc' = "np_exponential_decay"
       ELSE _mode' = "L" /\ pc' = "np_linear_decay"
    /\ UNCHANGED <<x, length, mode, result, i, ret, exc, tmoVars>>

\* decay.py:14-17
NpExponentialEntry ==
    /\ pc = "np_exponential_decay"
    /\ result' = ExpEntry(x, length)
    /\ i' = 1
    /\ pc' = "exp_loop"
    /\ UNCHANGED <<x, length, mode, _mode, ret, exc, tmoVars>>

\* decay.py:19-20: one iteration of `for i in range(1, m)`
NpExponentialLoop ==
    /\ pc = "exp_loop"
    /\ i < Len(x)
    /\ result' = ExpStep(result, x, length, i)
    /\ i' = i + 1
    /\ UNCHANGED <<pc, x, length, mode, _mode, ret, exc, tmoVars>>

\* decay.py:22 and decay.py:86
NpExponentialReturn ==
    /\ pc = "exp_loop"
    /\ ~(i < Len(x))
    /\ pc' = "returned" /\ ret' = "Series"
    /\ UNCHANGED <<x, length, mode, _mode, result, i, exc, tmoVars>>

\* decay.py:30-33
NpLinearEntry ==
    /\ pc = "np_linear_decay"
    /\ result' = LinEntry(x, length)
    /\ i' = 1
    /\ pc' = "lin_loop"
    /\ UNCHANGED <<x, length, mode, _mode, ret, exc, tmoVars>>

\* decay.py:35-36: one iteration of `for i in range(1, m)`
NpLinearLoop ==
    /\ pc = "lin_loop"
    /\ i < Len(x)
    /\ result' = LinStep(result, x, length, i)
    /\ i' = i + 1
    /\ UNCHANGED <<pc, x, length, mode, _mode, ret, exc, tmoVars>>

\* decay.py:38 and decay.py:86
NpLinearReturn ==
    /\ pc = "lin_loop"
    /\ ~(i < Len(x))
    /\ pc' = "returned" /\ ret' = "Series"
    /\ UNCHANGED <<x, length, mode, _mode, result, i, exc, tmoVars>>

DecayNext ==
    \/ DecayValidate
    \/ DecayCalculate
    \/ NpExponentialEntry
    \/ NpExponentialLoop
    \/ NpExponentialReturn
    \/ NpLinearEntry
    \/ NpLinearLoop
    \/ NpLinearReturn

DecaySpec == DecayInit /\ [][DecayNext]_vars

\* every product by rate in the exponential loop is exact over result.den
ExpExact ==
    (pc = "exp_loop" /\ i < Len(x)) => (result.w[i] * (length - 1)) % length = 0

\* ---------------------------------------------------- properties of decay

\* C10: when np_linear_decay / np_exponential_decay returns, result[0] = x[0]
\* and every later element is max(0, x[i], result[i-1] - 1/n), respectively
\* max(0, x[i], result[i-1] * (1 - 1/n)): it is >= 0, >= x[i], not below the
\* decayed predecessor, and equal to one of the three; element 0 is the
\* input unclamped, negative exactly when x[0] is negative.
C10_DecayRecurrence ==
    (pc = "returned" /\ ret = "Series") =>
        LET R == result.w
            d == result.den
            m == Len(x)
            \* n times the decayed predecessor of element k (1-based)
            decayed(k) == IF _mode = "L" THEN R[k - 1] * length - d
                                         ELSE R[k - 1] * (length - 1)
        IN /\ Len(R) = m
           /\ d = IF _mode = "L" THEN length ELSE Pow(length, m - 1)
           /\ R[1] = x[1] * d
           /\ (R[1] < 0) <=> (x[1] < 0)
           /\ \A k \in 2..m :
                 /\ R[k] >= 0
                 /\ R[k] >= x[k] * d
                 /\ R[k] * length >= decayed(k)
                 /\ \/ R[k] = 0
                    \/ R[k] = x[k] * d
                    \/ R[k] * length = decayed(k)

\* an exponential decay has returned for an input starting below zero, with
\* an element that is the strictly positive decayed predecessor, above the input
C10_Witness ==
    /\ pc = "returned" /\ ret = "Series" /\ _mode = "EXP"
    /\ x[1] < 0 /\ result.w[1] < 0
    /\ \E k \in 2..Len(x) :
          /\ result.w[k] > 0
          /\ result.w[k] > x[k] * result.den
          /\ result.w[k] * length = result.w[k - 1] * (length - 1)

====
